---- MODULE Spec2Model ----
(***************************************************************************)
(* A model of compas.geometry.Arc (src/src/compas/geometry/curves/arc.py)   *)
(* and, in its second part, of compas.geometry.Quaternion                  *)
(* (src/src/compas/geometry/xforms/quaternion.py).                         *)
(*                                                                         *)
(* One Arc object and one Circle live in a store together with a heap of   *)
(* Frame objects.  Every method of Arc is an operator from a store to an   *)
(* outcome [st, err, val]: the store it leaves, the error it raised ("" if *)
(* it returned) and the value it returned.  Every action applies one       *)
(* method call to the Arc and records the call (op), the store before it   *)
(* (pre) and its outcome (ret).  A constructor call that raises leaves the  *)
(* object as __init__ left it, with the attributes it had not yet assigned *)
(* at None (arc.py:100-102); built tells such an object from an Arc whose  *)
(* constructor returned.                                                   *)
(*                                                                         *)
(* Numbers are exact; an angle is counted in units of pi, so that          *)
(* math.pi is 1 and PI2 is 2.  All errors of arc.py are Python's           *)
(* ValueError; the model names them by their message: "NotSet"             *)
(* ("... not set."), "InvalidValue" (a setter's domain message) and        *)
(* "InvalidGeometry" (the sweep message of _verify).                       *)
(***************************************************************************)
EXTENDS Integers, Sequences, FiniteSets, TLC

\* Largest number a caller passes; the smallest is -1.
MaxVal == 3
\* Frame values are 0..MaxFrame.
MaxFrame == 1
\* Size of the heap of Frame objects.
MaxFrameIds == 4
\* The Circle's radius is in 0..MaxCircleRadius.
MaxCircleRadius == 1
\* The components a caller passes to Quaternion(w, x, y, z) are in
\* -1..MaxComp.
MaxComp == 2
\* Number of Quaternion objects that can be alive at a time.
MaxQuats == 4
\* A call whose result has a component above MaxNum in absolute value, or a
\* radicand above MaxRad, is not made.
MaxNum == 4
MaxRad == 16

pi == 1
PI2 == 2 * pi

Vals == -1..MaxVal
FrameVals == 0..MaxFrame
FrameIds == 1..MaxFrameIds
QuatIds == 1..MaxQuats
Comps == -1..MaxComp
\* The numbers passed where several are passed at once (to a constructor, in
\* a record assigned to data): for a radius 0 is out of domain, for an angle
\* MaxVal is.
RecVals == {0, 1, MaxVal}

\* Python's None; a set attribute holding v is <<v>>.
None == << >>

\* No Quaternion object is alive.
NoQuats == [i \in QuatIds |-> None]

\* The list [w, x, y, z] of four whole numbers (see the second part).
Vec(w, x, y, z) == [w |-> w, x |-> x, y |-> y, z |-> z, rad |-> 1]

VARIABLES
    arc,      \* the Arc's attributes _frame, _radius, _start_angle, _end_angle
    circle,   \* a Circle: [frame |-> Frame id, radius |-> number]
    heap,     \* Frame id -> value of that Frame object
    built,    \* TRUE iff the constructor call that made the Arc returned
    quats,    \* Quaternion id -> None, or <<the fields of that Quaternion object>>
    op,       \* the last call: [name, args]
    pre,      \* the store before the last call
    ret       \* the last call's outcome: [err, val]

vars == <<arc, circle, heap, built, quats, op, pre, ret>>

\* ----------------------------------------------------------------- outcomes

Ok(st, v) == [st |-> st, err |-> "", val |-> v]
Raise(st, e) == [st |-> st, err |-> e, val |-> None]

\* ------------------------------------------------- Frame objects (the heap)

\* The ids some object of the store refers to.
Live(st) ==
    {st.circle.frame} \cup (IF st.self._frame = None THEN {} ELSE {st.self._frame[1]})

\* The id of a newly allocated Frame object, `held` being referred to by locals.
Fresh(st, held) ==
    CHOOSE i \in FrameIds :
        /\ i \notin Live(st) \cup held
        /\ \A j \in FrameIds : j \notin Live(st) \cup held => i <= j

\* Frame(frame[0], frame[1], frame[2]): a new Frame object with the value of `f`.
FrameCopy(st, f, held) ==
    LET n == Fresh(st, held \cup {f})
    IN  [st |-> [st EXCEPT !.heap[n] = st.heap[f]], id |-> n]

\* Frame.__eq__: by value.
FrameEq(st, f, g) == st.heap[f] = st.heap[g]

\* -------------------------------------------------- Curve (the base class)

\* Curve.frame setter: the Arc gets a Frame object of its own, a copy of `f`.
frame_set(st, f) ==
    LET c == FrameCopy(st, f, {})
    IN  Ok([c.st EXCEPT !.self._frame = <<c.id>>], None)

\* Curve.frame getter: the Arc's Frame object.
frame_get(st) == Ok(st, st.self._frame[1])

\* ------------------------------------------------------ Arc: the properties

radius_get(st) ==
    IF st.self._radius = None
    THEN Raise(st, "NotSet")
    ELSE Ok(st, st.self._radius[1])

\* A faulty radius setter that lets 0 through.
radius_set_allows_zero(st, value) ==
    IF value < 0
    THEN Raise(st, "InvalidValue")
    ELSE Ok([st EXCEPT !.self._radius = <<value>>], None)

radius_set(st, value) ==
    IF value <= 0
    THEN Raise(st, "InvalidValue")
    ELSE Ok([st EXCEPT !.self._radius = <<value>>], None)

\* A faulty start_angle getter that treats the start angle as the radius and
\* the end angle are treated.
start_angle_get_strict(st) ==
    IF st.self._start_angle = None
    THEN Raise(st, "NotSet")
    ELSE Ok(st, st.self._start_angle[1])

start_angle_get(st) ==
    LET s1 == IF st.self._start_angle = None
              THEN [st EXCEPT !.self._start_angle = <<0>>]
              ELSE st
    IN  Ok(s1, s1.self._start_angle[1])

start_angle_set(st, value) ==
    IF value < 0 \/ value > PI2
    THEN Raise(st, "InvalidValue")
    ELSE Ok([st EXCEPT !.self._start_angle = <<value>>], None)

end_angle_get(st) ==
    IF st.self._end_angle = None
    THEN Raise(st, "NotSet")
    ELSE Ok(st, st.self._end_angle[1])

\* A faulty end_angle setter that has no upper limit.
end_angle_set_unbounded(st, value) ==
    IF value < 0
    THEN Raise(st, "InvalidValue")
    ELSE Ok([st EXCEPT !.self._end_angle = <<value>>], None)

end_angle_set(st, value) ==
    IF value < 0 \/ value > PI2
    THEN Raise(st, "InvalidValue")
    ELSE Ok([st EXCEPT !.self._end_angle = <<value>>], None)

\* self.end_angle - self.start_angle: the left operand is evaluated first.
angle(st) ==
    LET e == end_angle_get(st)
        s == start_angle_get(e.st)
    IN  IF e.err # "" THEN e ELSE Ok(s.st, e.val - s.val)

\* A faulty length that takes the diameter for the radius.
length_of_diameter(st) ==
    LET r == radius_get(st)
        a == angle(r.st)
    IN  IF r.err # "" THEN r
        ELSE IF a.err # "" THEN a
        ELSE Ok(a.st, 2 * r.val * a.val)

\* self.radius * self.angle
length(st) ==
    LET r == radius_get(st)
        a == angle(r.st)
    IN  IF r.err # "" THEN r
        ELSE IF a.err # "" THEN a
        ELSE Ok(a.st, r.val * a.val)

\* Circle(self.frame, self.radius): the value of a new Circle.
circle_get(st) ==
    LET f == frame_get(st)
        r == radius_get(f.st)
    IN  IF r.err # "" THEN r
        ELSE Ok(r.st, [frame |-> r.st.heap[f.val], radius |-> r.val])

diameter(st) ==
    LET r == radius_get(st)
    IN  IF r.err # "" THEN r ELSE Ok(r.st, 2 * r.val)

circumference(st) ==
    LET d == diameter(st)
    IN  IF d.err # "" THEN d ELSE Ok(d.st, d.val * pi)

Abs(x) == IF x < 0 THEN 0 - x ELSE x

\* close(a, b): equal within a tolerance smaller than the model's unit.
close(a, b) == a = b

is_circle(st) ==
    LET a == angle(st)
    IN  IF a.err # "" THEN a ELSE Ok(a.st, close(Abs(Abs(a.val) - PI2), 0))

is_closed(st) == Ok(st, FALSE)

is_periodic(st) == Ok(st, FALSE)

\* A _verify that also rejects a sweep of 0.
_verify_strict(st) ==
    LET a == angle(st)
        b == angle(a.st)
    IN  IF a.err # "" THEN a
        ELSE IF a.val <= 0 THEN Raise(a.st, "InvalidGeometry")
        ELSE IF b.val > PI2 THEN Raise(b.st, "InvalidGeometry")
        ELSE Ok(b.st, None)

\* The angle is read twice, once for each comparison that is evaluated.
_verify(st) ==
    LET a == angle(st)
        b == angle(a.st)
    IN  IF a.err # "" THEN a
        ELSE IF a.val < 0 THEN Raise(a.st, "InvalidGeometry")
        ELSE IF b.val > PI2 THEN Raise(b.st, "InvalidGeometry")
        ELSE Ok(b.st, None)

\* --------------------------------------------- Arc: the sequence protocol

__len__(st) == Ok(st, 4)

\* A faulty __getitem__ with the two angles in each other's place.
__getitem___swapped(st, key) ==
    CASE key = 0 -> frame_get(st)
      [] key = 1 -> radius_get(st)
      [] key = 2 -> end_angle_get(st)
      [] key = 3 -> start_angle_get(st)
      [] OTHER   -> Raise(st, "KeyError")

__getitem__(st, key) ==
    CASE key = 0 -> frame_get(st)
      [] key = 1 -> radius_get(st)
      [] key = 2 -> start_angle_get(st)
      [] key = 3 -> end_angle_get(st)
      [] OTHER   -> Raise(st, "KeyError")

\* `value` is a Frame id for key 0 and a number for the other keys.
__setitem__(st, key, value) ==
    CASE key = 0 -> frame_set(st, value)
      [] key = 1 -> radius_set(st, value)
      [] key = 2 -> start_angle_set(st, value)
      [] key = 3 -> end_angle_set(st, value)
      [] OTHER   -> Raise(st, "KeyError")

\* iter([self.frame, self.radius, self.start_angle, self.end_angle]): the list
\* is built left to right and the first getter that raises ends the call.
__iter__(st) ==
    LET f == frame_get(st)
        r == radius_get(f.st)
        s == start_angle_get(r.st)
        e == end_angle_get(s.st)
    IN  IF r.err # "" THEN r
        ELSE IF e.err # "" THEN e
        ELSE Ok(e.st, <<f.val, r.val, s.val, e.val>>)

\* other[key], for the operands __eq__ is applied to: a sequence of up to four
\* items, this Arc itself, another Arc (a temporary, whose own changes are
\* dropped with it) or an object that cannot be indexed.
Index(st, other, key) ==
    CASE other.kind = "seq" ->
            IF key < Len(other.items)
            THEN Ok(st, other.items[key + 1])
            ELSE Raise(st, "IndexError")
      [] other.kind = "self" -> __getitem__(st, key)
      [] other.kind = "arc" ->
            LET r == __getitem__([st EXCEPT !.self = other.self], key)
            IN  [r EXCEPT !.st = st]
      [] OTHER -> Raise(st, "TypeError")

__eq__(st, other) ==
    LET o0 == Index(st, other, 0)
        o1 == Index(o0.st, other, 1)
        o2 == Index(o1.st, other, 2)
        o3 == Index(o2.st, other, 3)
        f  == frame_get(o3.st)
        r  == radius_get(f.st)
        s  == start_angle_get(r.st)
        e  == end_angle_get(s.st)
    IN  IF o0.err # "" THEN Ok(o0.st, FALSE)
        ELSE IF o1.err # "" THEN Ok(o1.st, FALSE)
        ELSE IF o2.err # "" THEN Ok(o2.st, FALSE)
        ELSE IF o3.err # "" THEN Ok(o3.st, FALSE)
        ELSE IF ~FrameEq(f.st, f.val, o0.val) THEN Ok(f.st, FALSE)
        ELSE IF r.err # "" THEN r
        ELSE IF r.val # o1.val THEN Ok(r.st, FALSE)
        ELSE IF s.val # o2.val THEN Ok(s.st, FALSE)
        ELSE IF e.err # "" THEN e
        ELSE Ok(e.st, e.val = o3.val)

\* ---------------------------------------------------------------- Arc: data

\* A faulty data getter that gives the start angle as the end angle.
data_get_copied(st) ==
    Ok(st, [frame       |-> st.self._frame,
            radius      |-> st.self._radius,
            start_angle |-> st.self._start_angle,
            end_angle   |-> st.self._start_angle])

\* The record holds the attributes as they are stored: None or <<v>>.
data_get(st) ==
    Ok(st, [frame       |-> st.self._frame,
            radius      |-> st.self._radius,
            start_angle |-> st.self._start_angle,
            end_angle   |-> st.self._end_angle])

\* A faulty data setter that checks the whole record before it assigns any
\* of it: a record with an item out of domain changes nothing.
data_set_atomic(st, value) ==
    LET f == frame_set(st, value.frame[1])
        r == IF value.radius = None THEN Raise(f.st, "TypeError")
             ELSE radius_set(f.st, value.radius[1])
        s == IF value.start_angle = None THEN Raise(r.st, "TypeError")
             ELSE start_angle_set(r.st, value.start_angle[1])
        e == IF value.end_angle = None THEN Raise(s.st, "TypeError")
             ELSE end_angle_set(s.st, value.end_angle[1])
    IN  IF f.err # "" THEN Raise(st, f.err)
        ELSE IF r.err # "" THEN Raise(st, r.err)
        ELSE IF s.err # "" THEN Raise(st, s.err)
        ELSE IF e.err # "" THEN Raise(st, e.err)
        ELSE e

\* Each setter is applied to an item of the record, in the order frame,
\* radius, start_angle, end_angle; the first that raises ends the call.
\* Comparing a number item that is None with a number is a TypeError.
data_set(st, value) ==
    LET f == frame_set(st, value.frame[1])
        r == IF value.radius = None THEN Raise(f.st, "TypeError")
             ELSE radius_set(f.st, value.radius[1])
        s == IF value.start_angle = None THEN Raise(r.st, "TypeError")
             ELSE start_angle_set(r.st, value.start_angle[1])
        e == IF value.end_angle = None THEN Raise(s.st, "TypeError")
             ELSE end_angle_set(s.st, value.end_angle[1])
    IN  IF f.err # "" THEN f
        ELSE IF r.err # "" THEN r
        ELSE IF s.err # "" THEN s
        ELSE e

\* ------------------------------------------------------- Arc: construction

\* A new object, before __init__ has run.
Blank == [_frame |-> None, _radius |-> None, _start_angle |-> None, _end_angle |-> None]

\* Curve.__init__(frame=frame)
Curve__init__(st, frame) == frame_set([st EXCEPT !.self._frame = None], frame)

__init__(st, frame, radius, start_angle, end_angle) ==
    LET c  == Curve__init__(st, frame)
        s0 == [c.st EXCEPT !.self._radius = None,
                           !.self._start_angle = None,
                           !.self._end_angle = None]
        r  == radius_set(s0, radius)
        s  == start_angle_set(r.st, start_angle)
        e  == end_angle_set(s.st, end_angle)
    IN  IF r.err # "" THEN r
        ELSE IF s.err # "" THEN s
        ELSE e

\* Arc(frame, radius, start_angle, end_angle): __new__ makes the object and
\* runs __init__ on it, and the call then runs __init__ on the object that
\* __new__ returned.  An object whose __init__ raised stays as __init__ left it.
__new__(st, frame, radius, start_angle, end_angle) ==
    __init__([st EXCEPT !.self = Blank], frame, radius, start_angle, end_angle)

Arc(st, frame, radius, start_angle, end_angle) ==
    LET n == __new__(st, frame, radius, start_angle, end_angle)
    IN  IF n.err # "" THEN n
        ELSE __init__(n.st, frame, radius, start_angle, end_angle)

\* A faulty from_circle that takes the circle's diameter for the radius.
from_circle_diameter(st, start_angle, end_angle) ==
    Arc(st, st.circle.frame, 2 * st.circle.radius, start_angle, end_angle)

from_circle(st, start_angle, end_angle) ==
    Arc(st, st.circle.frame, st.circle.radius, start_angle, end_angle)

\* ------------------------------------------------------------- the program

Cur == [self |-> arc, circle |-> circle, heap |-> heap]

\* Frame objects nothing refers to are collected, and the ids are renamed so
\* that an Arc's own Frame object has the least id the Circle's does not.
Canon(st) ==
    LET cid == st.circle.frame
        own == st.self._frame # None /\ st.self._frame[1] # cid
        nid == CHOOSE i \in FrameIds : i # cid /\ \A j \in FrameIds : j # cid => i <= j
    IN  [st EXCEPT
            !.self._frame = IF own THEN <<nid>> ELSE @,
            !.heap = [i \in FrameIds |->
                        IF i = cid THEN st.heap[cid]
                        ELSE IF own /\ i = nid THEN st.heap[st.self._frame[1]]
                        ELSE 0]]

\* A Frame object with value fv, made by the caller for the call.
Temp(st, fv) ==
    LET t == Fresh(st, {})
    IN  [st |-> [st EXCEPT !.heap[t] = fv], id |-> t]

\* No call is recorded: the caller has dropped the last call's outcome.
NoOp == [name |-> "", args |-> << >>]
NoRet == [err |-> "", val |-> None]

\* The call `name(args)` took the store st0 to the outcome r.  A call is made
\* once the outcome of the call before it has been dropped.
Done(name, args, st0, r, b) ==
    LET c == Canon(r.st)
    IN  /\ op = NoOp
        /\ op' = [name |-> name, args |-> args]
        /\ pre' = st0
        /\ arc' = c.self
        /\ circle' = c.circle
        /\ heap' = c.heap
        /\ ret' = [err |-> r.err, val |-> r.val]
        /\ built' = b
        /\ UNCHANGED quats

\* The value of the arc's Frame object, and the frame values that differ from it.
FrameVal == heap[arc._frame[1]]
OtherFrameVals == FrameVals \ {FrameVal}

\* The store in which a constructor call starts: the Arc of before is dropped.
Start == Canon([Cur EXCEPT !.self = Blank])

\* arc = Arc(Frame(fv), r, a, b)
New ==
    \E fv \in FrameVals, r \in RecVals, a \in RecVals, b \in RecVals :
        LET t == Temp(Start, fv)
            o == Arc(t.st, t.id, r, a, b)
        IN  Done("Arc", <<fv, r, a, b>>, Start, o, o.err = "")

\* arc = Arc.from_circle(circle, a, b)
FromCircle ==
    \E a \in RecVals, b \in RecVals :
        LET o == from_circle(Start, a, b)
        IN  Done("from_circle", <<a, b>>, Start, o, o.err = "")

\* arc.frame = Frame(fv)
SetFrame ==
    \E fv \in FrameVals :
        LET t == Temp(Cur, fv)
        IN  Done("frame_set", <<fv>>, Cur, frame_set(t.st, t.id), built)

\* arc.radius = v
SetRadius ==
    \E v \in Vals : Done("radius_set", <<v>>, Cur, radius_set(Cur, v), built)

\* arc.start_angle = v
SetStartAngle ==
    \E v \in Vals : Done("start_angle_set", <<v>>, Cur, start_angle_set(Cur, v), built)

\* arc.end_angle = v
SetEndAngle ==
    \E v \in Vals : Done("end_angle_set", <<v>>, Cur, end_angle_set(Cur, v), built)

Keys == -1..4

\* arc[k] = v, v being Frame(v) for k = 0
SetItem ==
    \E k \in Keys, v \in Vals :
        /\ k = 0 => v \in FrameVals
        /\ LET t == Temp(Cur, v)
           IN  Done("__setitem__", <<k, v>>, Cur,
                    IF k = 0 THEN __setitem__(t.st, k, t.id) ELSE __setitem__(Cur, k, v),
                    built)

\* arc.data = {"frame": Frame(fv), "radius": r, "start_angle": a, "end_angle": b},
\* with a frame that differs from the arc's
SetData ==
    \E fv \in OtherFrameVals, r \in RecVals, a \in RecVals, b \in RecVals :
        LET t == Temp(Cur, fv)
            d == [frame |-> <<t.id>>, radius |-> <<r>>,
                  start_angle |-> <<a>>, end_angle |-> <<b>>]
        IN  Done("data_set", <<fv, r, a, b>>, Cur, data_set(t.st, d), built)

\* The arc's Frame object is changed in place (arc.frame.point = ...).
MutateFrame ==
    \E fv \in FrameVals :
        /\ arc._frame # None
        /\ Done("frame_mutate", <<fv>>, Cur,
                Ok([Cur EXCEPT !.heap[arc._frame[1]] = fv], None), built)

\* A call that takes no argument.
Call(name, r) == Done(name, << >>, Cur, r, built)

GetFrame == Call("frame_get", frame_get(Cur))

GetRadius == Call("radius_get", radius_get(Cur))

GetStartAngle == Call("start_angle_get", start_angle_get(Cur))

GetEndAngle == Call("end_angle_get", end_angle_get(Cur))

GetAngle == Call("angle", angle(Cur))

GetLength == Call("length", length(Cur))

GetCircle == Call("circle", circle_get(Cur))

GetDiameter == Call("diameter", diameter(Cur))

GetCircumference == Call("circumference", circumference(Cur))

GetIsCircle == Call("is_circle", is_circle(Cur))

GetIsClosed == Call("is_closed", is_closed(Cur))

GetIsPeriodic == Call("is_periodic", is_periodic(Cur))

GetData == Call("data_get", data_get(Cur))

Verify == Call("_verify", _verify(Cur))

Len_ == Call("__len__", __len__(Cur))

Iter == Call("__iter__", __iter__(Cur))

\* arc[k]
GetItem ==
    \E k \in Keys : Done("__getitem__", <<k>>, Cur, __getitem__(Cur, k), built)

\* The number an attribute x holds (1 if it holds none), and another number.
Same(x) == IF x = None THEN 1 ELSE x[1]
Differ(x) == (Same(x) % 2) + 1

\* What arc is compared with: a "seq" is the first n of the items Frame(fv),
\* r, a, b; an "arc" is another Arc with these attributes, of which the n-th
\* (n in 1..3) is not set; "self" is the arc itself and "obj" an object that
\* cannot be indexed.  An item that is not there is written as 0.  The items
\* are those of the arc, or differ from them in one place.
Others ==
    LET F == FrameVal
        R == Same(arc._radius)
        A == Same(arc._start_angle)
        B == Same(arc._end_angle)
        O(kind, n, fv, r, a, b) ==
            [kind |-> kind, n |-> n, fv |-> fv, r |-> r, a |-> a, b |-> b]
    IN  {O("seq", 0, 0, 0, 0, 0), O("seq", 1, F, 0, 0, 0), O("seq", 2, F, R, 0, 0),
         O("seq", 3, F, R, A, 0), O("seq", 4, F, R, A, B),
         O("seq", 4, F, Differ(arc._radius), A, B),
         O("seq", 4, F, R, Differ(arc._start_angle), B),
         O("seq", 4, F, R, A, Differ(arc._end_angle)),
         O("arc", 0, F, R, A, B), O("arc", 0, F, R, A, Differ(arc._end_angle)),
         O("arc", 1, F, 0, A, B), O("arc", 2, F, R, 0, B), O("arc", 3, F, R, A, 0),
         O("self", 0, 0, 0, 0, 0), O("obj", 0, 0, 0, 0, 0)}
        \cup {O("seq", 4, fv, R, A, B) : fv \in OtherFrameVals}
        \cup {O("arc", 0, fv, R, A, B) : fv \in OtherFrameVals}

\* arc == other
Eq ==
    \E o \in Others :
        LET t == Temp(Cur, o.fv)
            other ==
                CASE o.kind = "seq" ->
                        [kind |-> "seq", items |-> SubSeq(<<t.id, o.r, o.a, o.b>>, 1, o.n)]
                  [] o.kind = "arc" ->
                        [kind |-> "arc",
                         self |-> [_frame       |-> <<t.id>>,
                                   _radius      |-> IF o.n = 1 THEN None ELSE <<o.r>>,
                                   _start_angle |-> IF o.n = 2 THEN None ELSE <<o.a>>,
                                   _end_angle   |-> IF o.n = 3 THEN None ELSE <<o.b>>]]
                  [] OTHER -> [kind |-> o.kind]
        IN  Done("__eq__", o, Cur, __eq__(t.st, other), built)

\* d = arc.data; target = Arc(Frame(fv), r, a, b); target.data = d; target == arc.
\* The call returns the error of the first step that raised or else the
\* target's attributes and the comparison's value; the target is then dropped.
RoundTrip ==
    \E x \in {[fv |-> 0, r |-> 1, a |-> 0, b |-> 0],
               [fv |-> MaxFrame, r |-> MaxVal, a |-> PI2, b |-> pi]} :
        LET fv == x.fv
            r  == x.r
            a  == x.a
            b  == x.b
            d  == data_get(Cur)
            tf == Fresh(d.st, {})
            tg == [d.st EXCEPT !.heap[tf] = fv,
                               !.self = [_frame |-> <<tf>>, _radius |-> <<r>>,
                                         _start_angle |-> <<a>>, _end_angle |-> <<b>>]]
            w  == data_set(tg, d.val)
            e  == __eq__(w.st, [kind |-> "arc", self |-> d.st.self])
            v  == [frame       |-> e.st.heap[e.st.self._frame[1]],
                   radius      |-> e.st.self._radius,
                   start_angle |-> e.st.self._start_angle,
                   end_angle   |-> e.st.self._end_angle,
                   equal       |-> e.val]
            o  == IF w.err # "" THEN Raise(d.st, w.err)
                  ELSE IF e.err # "" THEN Raise(d.st, e.err)
                  ELSE Ok(d.st, v)
        IN  Done("roundtrip", <<fv, r, a, b>>, Cur, o, built)

\* The state after arc = Arc(Frame(fv), r, a, b), raised or not, beside a
\* Circle of radius cr.  Frame values are tokens that are only compared: the
\* Circle's is MaxFrame, and an Arc's is any of them.
Init ==
    \E cf \in {MaxFrame}, cr \in 0..MaxCircleRadius,
       fv \in FrameVals, r \in RecVals, a \in RecVals, b \in RecVals :
        LET c0  == CHOOSE i \in FrameIds : \A j \in FrameIds : i <= j
            st0 == [self   |-> Blank,
                    circle |-> [frame |-> c0, radius |-> cr],
                    heap   |-> [i \in FrameIds |-> IF i = c0 THEN cf ELSE 0]]
            t   == Temp(st0, fv)
            o   == Arc(t.st, t.id, r, a, b)
            c   == Canon(o.st)
        IN  /\ op = [name |-> "Arc", args |-> <<fv, r, a, b>>]
            /\ pre = st0
            /\ arc = c.self
            /\ circle = c.circle
            /\ heap = c.heap
            /\ ret = [err |-> o.err, val |-> o.val]
            /\ built = (o.err = "")
            /\ quats = NoQuats

\* The caller drops the outcome of the last call and its view of the store
\* before it.
Drop ==
    /\ op # NoOp
    /\ op' = NoOp
    /\ pre' = Cur
    /\ ret' = NoRet
    /\ UNCHANGED <<arc, circle, heap, built, quats>>

Next ==
    \/ Drop
    \/ New \/ FromCircle
    \/ SetFrame \/ SetRadius \/ SetStartAngle \/ SetEndAngle
    \/ SetItem \/ SetData \/ MutateFrame
    \/ GetFrame \/ GetRadius \/ GetStartAngle \/ GetEndAngle
    \/ GetAngle \/ GetLength \/ GetCircle \/ GetDiameter \/ GetCircumference
    \/ GetIsCircle \/ GetIsClosed \/ GetIsPeriodic
    \/ GetData \/ Verify \/ Len_ \/ Iter \/ GetItem \/ Eq \/ RoundTrip

Spec == Init /\ [][Next]_vars

\* ============================================================== Quaternion
\*
\* The second part models compas.geometry.Quaternion.  The store of
\* Quaternion objects is quats; a method is an operator from a store and the
\* id of its receiver to an outcome [st, err, val], and `==` between two
\* Quaternion objects compares their ids, the class defining no __eq__.
\*
\* A list of four floats is the record [w, x, y, z, rad] of integers, which
\* stands for the floats w/sqrt(rad), x/sqrt(rad), y/sqrt(rad), z/sqrt(rad):
\* the lists of this form are closed under every operation of the class, and
\* the arithmetic on them is exact.  rad >= 1 in every list of finite
\* numbers; rad = 0 stands for a list that a division by zero produced (NaN
\* or infinite components).  Reduce gives the one form in which a list of
\* finite numbers is kept, so that two lists are equal iff their floats are.

\* rad times the sum of the squares of the four floats
SumSq(q) == q.w * q.w + q.x * q.x + q.y * q.y + q.z * q.z

\* k can be taken out of the four numerators and of the root of rad.
Divides(k, q) ==
    /\ q.rad % (k * k) = 0
    /\ q.w % k = 0 /\ q.x % k = 0 /\ q.y % k = 0 /\ q.z % k = 0

Reduce(q) ==
    IF SumSq(q) = 0 THEN Vec(0, 0, 0, 0)
    ELSE LET k == CHOOSE k \in 1..q.rad :
                      Divides(k, q) /\ \A j \in 1..q.rad : Divides(j, q) => j <= k
         IN  [w |-> q.w \div k, x |-> q.x \div k, y |-> q.y \div k, z |-> q.z \div k,
              rad |-> q.rad \div (k * k)]

\* The greatest common divisor of a >= 0 and b >= 1.
GCD(a, b) ==
    CHOOSE g \in 1..b :
        /\ a % g = 0 /\ b % g = 0
        /\ \A h \in 1..b : (a % h = 0 /\ b % h = 0) => h <= g

\* -------------------------- the free functions of compas.geometry.transformations

\* The Hamilton product r * q.
quaternion_multiply(r, q) ==
    Reduce([w   |-> r.w * q.w - r.x * q.x - r.y * q.y - r.z * q.z,
            x   |-> r.w * q.x + r.x * q.w + r.y * q.z - r.z * q.y,
            y   |-> r.w * q.y - r.x * q.z + r.y * q.w + r.z * q.x,
            z   |-> r.w * q.z + r.x * q.y - r.y * q.x + r.z * q.w,
            rad |-> r.rad * q.rad])

\* x, y and z negated, w kept
quaternion_conjugate(q) == [q EXCEPT !.x = -q.x, !.y = -q.y, !.z = -q.z]

\* sqrt(w*w + x*x + y*y + z*z), given as the fraction <<n, d>> in lowest
\* terms of which it is the square root
quaternion_norm(q) ==
    LET g == GCD(SumSq(q), q.rad)
    IN  <<SumSq(q) \div g, q.rad \div g>>

\* The norm is 1 (the tolerance of the comparison is not modelled).
quaternion_is_unit(q) == quaternion_norm(q) = <<1, 1>>

\* Each of the four floats divided by the norm.  The division is not
\* guarded: with a norm of 0.0 Python's float division raises.
quaternion_unitize(q) ==
    IF SumSq(q) = 0
    THEN [err |-> "ZeroDivisionError", val |-> None]
    ELSE [err |-> "", val |-> Reduce([q EXCEPT !.rad = SumSq(q)])]

\* All four signs flipped if w < 0.
quaternion_canonize(q) ==
    IF q.w < 0
    THEN [q EXCEPT !.w = -q.w, !.x = -q.x, !.y = -q.y, !.z = -q.z]
    ELSE q

\* ------------------------------------------------- Quaternion: the methods

\* self.w = float(w), ... : the four fields of self are set, q being the
\* list of the four arguments.
Quaternion__init__(st, self, q) == Ok([st EXCEPT ![self] = <<q>>], None)

\* The id of a new object.
QFresh(st) ==
    CHOOSE i \in QuatIds : st[i] = None /\ \A j \in QuatIds : st[j] = None => i <= j

\* Quaternion(*q): a new object, which is returned once __init__ has run.
Quaternion(st, q) ==
    LET self == QFresh(st)
    IN  Ok(Quaternion__init__(st, self, q).st, self)

\* a == b for two Quaternion objects: the class defines no __eq__, and
\* that of object compares identities.
Quaternion__eq__(self, other) == self = other

\* list(self)
Quaternion__iter__(st, self) == Ok(st, st[self][1])

Quaternion__mul__(st, self, other) ==
    LET r == Quaternion__iter__(st, self)
        q == Quaternion__iter__(r.st, other)
    IN  Quaternion(q.st, quaternion_multiply(r.val, q.val))

\* w, x, y, z = frame.quaternion; return cls(w, x, y, z)
from_frame(st, fq) == Quaternion(st, fq)

wxyz(st, self) ==
    LET q == st[self][1]
    IN  Ok(st, [rad |-> q.rad, items |-> <<q.w, q.x, q.y, q.z>>])

xyzw(st, self) ==
    LET q == st[self][1]
    IN  Ok(st, [rad |-> q.rad, items |-> <<q.x, q.y, q.z, q.w>>])

conjugate(st, self) ==
    LET l == Quaternion__iter__(st, self)
    IN  Quaternion(l.st, quaternion_conjugate(l.val))

\* A faulty unitize that hides the failed division and stores its result.
unitize_silent(st, self) ==
    LET l  == Quaternion__iter__(st, self)
        qu == quaternion_unitize(l.val)
    IN  IF qu.err # ""
        THEN Ok([l.st EXCEPT ![self] = <<[l.val EXCEPT !.rad = 0]>>], None)
        ELSE Ok([l.st EXCEPT ![self] = <<qu.val>>], None)

\* The fields are assigned once quaternion_unitize has returned.
unitize(st, self) ==
    LET l  == Quaternion__iter__(st, self)
        qu == quaternion_unitize(l.val)
    IN  IF qu.err # "" THEN Raise(l.st, qu.err)
        ELSE Ok([l.st EXCEPT ![self] = <<qu.val>>], None)

is_unit(st, self) ==
    LET l == Quaternion__iter__(st, self)
    IN  Ok(l.st, quaternion_is_unit(l.val))

\* A faulty unitized that scales the receiver and returns it.
unitized_in_place(st, self) ==
    LET l  == Quaternion__iter__(st, self)
        qu == quaternion_unitize(l.val)
    IN  IF qu.err # "" THEN Raise(l.st, qu.err)
        ELSE Ok([l.st EXCEPT ![self] = <<qu.val>>], self)

unitized(st, self) ==
    LET l  == Quaternion__iter__(st, self)
        qu == quaternion_unitize(l.val)
    IN  IF qu.err # "" THEN Raise(l.st, qu.err)
        ELSE Quaternion(l.st, qu.val)

\* A faulty canonize that calls quaternion_conjugate.
canonize_conjugates(st, self) ==
    LET l == Quaternion__iter__(st, self)
    IN  Ok([l.st EXCEPT ![self] = <<quaternion_conjugate(l.val)>>], None)

canonize(st, self) ==
    LET l == Quaternion__iter__(st, self)
    IN  Ok([l.st EXCEPT ![self] = <<quaternion_canonize(l.val)>>], None)

\* A faulty canonized that returns a copy of the receiver as it is.
canonized_copy(st, self) ==
    LET l == Quaternion__iter__(st, self)
    IN  Quaternion(l.st, l.val)

canonized(st, self) ==
    LET l == Quaternion__iter__(st, self)
    IN  Quaternion(l.st, quaternion_canonize(l.val))

norm(st, self) ==
    LET l == Quaternion__iter__(st, self)
    IN  Ok(l.st, quaternion_norm(l.val))

\* ------------------------------------------------- Quaternion: the program
\*
\* One Quaternion, the receiver, is kept from call to call; the other
\* operand of a product and the instance a call returns live until the
\* outcome of the call is dropped.

\* The id of the receiver: the first object made.
Receiver == QFresh(NoQuats)

\* Every number of every object of the store is within the bounds.
Fits(st) ==
    \A i \in QuatIds :
        st[i] # None =>
            /\ \A n \in {st[i][1].w, st[i][1].x, st[i][1].y, st[i][1].z} :
                  -MaxNum <= n /\ n <= MaxNum
            /\ st[i][1].rad <= MaxRad

\* The store with the receiver alone.
Kept(st) == [i \in QuatIds |-> IF i = Receiver THEN st[i] ELSE None]

\* The call `name(args)` took the store st0 to the outcome r.
QDone(name, args, st0, r) ==
    /\ op = NoOp
    /\ Fits(r.st)
    /\ op' = [name |-> name, args |-> args]
    /\ pre' = st0
    /\ quats' = r.st
    /\ ret' = [err |-> r.err, val |-> r.val]
    /\ UNCHANGED <<arc, circle, heap, built>>

\* The quaternions of the frames from_frame is given: of unit length.
FrameQuats ==
    {Vec(1, 0, 0, 0), Vec(0, 0, -1, 0),
     [w |-> 1, x |-> 1, y |-> 1, z |-> 1, rad |-> 4],
     [w |-> -1, x |-> 0, y |-> 1, z |-> 0, rad |-> 2]}

\* The other operands of a product.
Operands ==
    {Vec(1, 0, 0, 0), Vec(0, 1, 0, 0), Vec(0, 0, 0, 0), Vec(-1, 1, 0, -1),
     [w |-> 1, x |-> 0, y |-> -1, z |-> 0, rad |-> 2]}

\* q = Quaternion(w, x, y, z)
QNew ==
    \E w \in Comps, x \in Comps, y \in Comps, z \in Comps :
        QDone("Quaternion", <<w, x, y, z>>, NoQuats, Quaternion(NoQuats, Vec(w, x, y, z)))

\* q = Quaternion.from_frame(frame)
QFromFrame ==
    \E fq \in FrameQuats : QDone("from_frame", <<fq>>, NoQuats, from_frame(NoQuats, fq))

\* q * Quaternion(*o)
QMul ==
    \E o \in Operands :
        LET a == Quaternion(quats, o)
        IN  QDone("__mul__", <<o>>, a.st, Quaternion__mul__(a.st, Receiver, a.val))

\* A call on the receiver that takes no argument.
QCall(name, r) == QDone(name, << >>, quats, r)

QIter == QCall("__iter__", Quaternion__iter__(quats, Receiver))
QWxyz == QCall("wxyz", wxyz(quats, Receiver))
QXyzw == QCall("xyzw", xyzw(quats, Receiver))
QConjugate == QCall("conjugate", conjugate(quats, Receiver))
QUnitize == QCall("unitize", unitize(quats, Receiver))
QIsUnit == QCall("is_unit", is_unit(quats, Receiver))
QUnitized == QCall("unitized", unitized(quats, Receiver))
QCanonize == QCall("canonize", canonize(quats, Receiver))
QCanonized == QCall("canonized", canonized(quats, Receiver))
QNorm == QCall("norm", norm(quats, Receiver))

\* The caller drops the outcome of the last call, and with it the other
\* operand and the instance the call returned.
QDrop ==
    /\ op # NoOp
    /\ op' = NoOp
    /\ pre' = Kept(quats)
    /\ quats' = Kept(quats)
    /\ ret' = NoRet
    /\ UNCHANGED <<arc, circle, heap, built>>

\* The state after q = Quaternion(w, x, y, z); no Arc is looked at.
InitQ ==
    \E w \in Comps, x \in Comps, y \in Comps, z \in Comps :
        LET o == Quaternion(NoQuats, Vec(w, x, y, z))
        IN  /\ op = [name |-> "Quaternion", args |-> <<w, x, y, z>>]
            /\ pre = NoQuats
            /\ quats = o.st
            /\ ret = [err |-> o.err, val |-> o.val]
            /\ arc = Blank
            /\ circle = None
            /\ heap = [i \in FrameIds |-> 0]
            /\ built = FALSE

NextQ ==
    \/ QDrop
    \/ QNew \/ QFromFrame \/ QMul
    \/ QIter \/ QWxyz \/ QXyzw \/ QConjugate \/ QNorm \/ QIsUnit
    \/ QUnitize \/ QUnitized \/ QCanonize \/ QCanonized

SpecQ == InitQ /\ [][NextQ]_vars

\* ================================================================ the claims

\* The attributes as values: the Frame object's value in place of its id.
Stored(st) ==
    [frame       |-> IF st.self._frame = None THEN None ELSE <<st.heap[st.self._frame[1]]>>,
     radius      |-> st.self._radius,
     start_angle |-> st.self._start_angle,
     end_angle   |-> st.self._end_angle]

Before == Stored(pre)
After == Stored(Cur)

\* The store is as it was before the call.
Unchanged == arc = pre.self /\ heap = pre.heap /\ circle = pre.circle

InDomain(v) == v >= 0 /\ v <= PI2

SweepBefore ==
    pre.self._end_angle[1]
        - (IF pre.self._start_angle = None THEN 0 ELSE pre.self._start_angle[1])

C4_VerifyRejectsDegenerate ==
    (op.name = "_verify" /\ built) =>
        ((SweepBefore <= 0 \/ SweepBefore > PI2) => ret.err = "InvalidGeometry")

\* C5: reading radius or end_angle while it is not stored fails with the
\* not-set error; reading start_angle while it is not stored does not fail
\* and returns 0.
C5_UnsetReads ==
    /\ (op.name = "radius_get" /\ pre.self._radius = None) => ret.err = "NotSet"
    /\ (op.name = "end_angle_get" /\ pre.self._end_angle = None) => ret.err = "NotSet"
    /\ (op.name = "start_angle_get" /\ pre.self._start_angle = None) =>
          ret.err = "" /\ ret.val = 0

\* start_angle was read from an arc that stored none.
C5_Witness ==
    /\ op.name = "start_angle_get"
    /\ pre.self._start_angle = None
    /\ ret.val = 0

ReadNames ==
    {"frame_get", "radius_get", "start_angle_get", "end_angle_get", "angle", "length",
     "circle", "diameter", "circumference", "is_circle", "is_closed", "is_periodic",
     "data_get", "__getitem__", "__iter__", "__len__", "__eq__", "_verify"}

\* C6: no read-only operation of an Arc changes a stored field, in any state,
\* one where start_angle was never assigned included.
C6_ReadsChangeNothing ==
    op.name \in ReadNames => Unchanged

\* What `other` yields when indexed at 0..3, when it yields four components:
\* a sequence of four items, another Arc whose radius and end angle are set
\* (a start angle that is not set reads as 0), or the arc itself if its own
\* radius and end angle are set.
YieldsFour ==
    \/ op.args.kind = "seq" /\ op.args.n = 4
    \/ op.args.kind = "arc" /\ op.args.n \in {0, 2}
    \/ op.args.kind = "self" /\ pre.self._radius # None /\ pre.self._end_angle # None

SameComponents ==
    \/ op.args.kind = "self"
    \/ /\ Before.frame = <<op.args.fv>>
       /\ Before.radius = <<op.args.r>>
       /\ Before.start_angle \in {<<op.args.a>>} \cup (IF op.args.a = 0 THEN {None} ELSE {})
       /\ Before.end_angle = <<op.args.b>>

\* C7: arc == other never raises, for any arc state and any other, and is
\* true iff other yields four indexed components equal, position by position,
\* to the arc's frame, radius, start_angle and end_angle; when other cannot
\* yield four components the comparison is false.
C7_EqTotal ==
    op.name = "__eq__" =>
        /\ ret.err = ""
        /\ ret.val <=> (YieldsFour /\ SameComponents)

\* C8: for every Arc made by the constructor and the setters, assigning its
\* data record to an Arc makes that Arc equal to the original, with the same
\* frame, radius, start_angle and end_angle, and taking the record does not
\* change the original.
C8_DataRoundTrip ==
    (built /\ op.name = "roundtrip") =>
        /\ ret.err = ""
        /\ ret.val.equal
        /\ ret.val.frame = Before.frame[1]
        /\ ret.val.radius = Before.radius
        /\ ret.val.start_angle = Before.start_angle
        /\ ret.val.end_angle = Before.end_angle
        /\ Unchanged

\* The record of a built arc was assigned to an Arc that differed from it in
\* all four fields, which then compared equal to it.
C8_Witness ==
    /\ built
    /\ op.name = "roundtrip"
    /\ ret.err = ""
    /\ ret.val.equal
    /\ op.args[1] # Before.frame[1]
    /\ op.args[2] # Before.radius[1]
    /\ op.args[3] # Before.start_angle[1]
    /\ op.args[4] # Before.end_angle[1]

\* What reading the attribute x of the arc before the call gives, x being
\* checked for being set: the not-set error, or its value.
ReadsAs(x) ==
    IF x = None THEN ret.err = "NotSet" ELSE ret.err = "" /\ ret.val = x[1]

\* C9: for i in 0..3, arc[i] reads and arc[i] = v writes the field that
\* frame, radius, start_angle, end_angle name, a positional write validating
\* and raising as the named setter does; iteration yields the four values in
\* index order; the length is 4; a read or write at any other index fails
\* with a lookup error and leaves the Arc unchanged.
C9_PositionalAccess ==
    /\ op.name = "__getitem__" =>
          CASE op.args[1] = 0 ->
                  ret.err = "" /\ ret.val = pre.self._frame[1] /\ Unchanged
            [] op.args[1] = 1 -> ReadsAs(pre.self._radius) /\ Unchanged
            [] op.args[1] = 2 ->
                  /\ ret.err = ""
                  /\ ret.val = (IF pre.self._start_angle = None
                                THEN 0 ELSE pre.self._start_angle[1])
                  /\ After = [Before EXCEPT !.start_angle = <<ret.val>>]
            [] op.args[1] = 3 -> ReadsAs(pre.self._end_angle) /\ Unchanged
            [] OTHER -> ret.err = "KeyError" /\ Unchanged
    /\ op.name = "__setitem__" =>
          LET k == op.args[1]
              v == op.args[2]
          IN  CASE k = 0 -> ret.err = "" /\ After = [Before EXCEPT !.frame = <<v>>]
                [] k = 1 ->
                      IF v <= 0
                      THEN ret.err = "InvalidValue" /\ After = Before
                      ELSE ret.err = "" /\ After = [Before EXCEPT !.radius = <<v>>]
                [] k = 2 ->
                      IF InDomain(v)
                      THEN ret.err = "" /\ After = [Before EXCEPT !.start_angle = <<v>>]
                      ELSE ret.err = "InvalidValue" /\ After = Before
                [] k = 3 ->
                      IF InDomain(v)
                      THEN ret.err = "" /\ After = [Before EXCEPT !.end_angle = <<v>>]
                      ELSE ret.err = "InvalidValue" /\ After = Before
                [] OTHER -> ret.err = "KeyError" /\ Unchanged
    /\ (op.name = "__iter__" /\ pre.self._radius # None /\ pre.self._end_angle # None) =>
          /\ ret.err = ""
          /\ ret.val = <<pre.self._frame[1], pre.self._radius[1],
                         IF pre.self._start_angle = None
                         THEN 0 ELSE pre.self._start_angle[1],
                         pre.self._end_angle[1]>>
    /\ op.name = "__len__" => ret.err = "" /\ ret.val = 4 /\ Unchanged

\* An end angle above 2*pi was assigned by position, which raised.
C9_Witness ==
    /\ op.name = "__setitem__"
    /\ op.args[1] = 3
    /\ op.args[2] > PI2
    /\ ret.err = "InvalidValue"
    /\ After = Before

\* The Circle as a value.
CircleValue(st) == [frame |-> st.heap[st.circle.frame], radius |-> st.circle.radius]

ValidBefore ==
    /\ pre.self._radius # None /\ pre.self._radius[1] > 0
    /\ pre.self._start_angle # None /\ InDomain(pre.self._start_angle[1])
    /\ pre.self._end_angle # None /\ InDomain(pre.self._end_angle[1])

\* C16: for an Arc storing radius r > 0 and angles a, b in [0, 2*pi],
\* whatever calls stored them, angle is b - a, length is r * (b - a),
\* diameter is 2 * r, and is_closed and is_periodic are false: each is
\* computed from the fields stored when it is read.
C16_DerivedMeasures ==
    ValidBefore =>
        LET r == pre.self._radius[1]
            a == pre.self._start_angle[1]
            b == pre.self._end_angle[1]
        IN  /\ op.name = "angle" => ret.err = "" /\ ret.val = b - a
            /\ op.name = "length" => ret.err = "" /\ ret.val = r * (b - a)
            /\ op.name = "diameter" => ret.err = "" /\ ret.val = 2 * r
            /\ op.name \in {"is_closed", "is_periodic"} =>
                  ret.err = "" /\ ret.val = FALSE

\* The length was read of a built arc whose radius 2 only a setter can have
\* stored, and whose sweep is not 0.
C16_Witness ==
    /\ built
    /\ op.name = "length"
    /\ pre.self._radius = <<2>>
    /\ pre.self._end_angle[1] # pre.self._start_angle[1]
    /\ ret.val = 2 * (pre.self._end_angle[1] - pre.self._start_angle[1])

\* The first item of the record of a data assignment that its setter
\* rejects: 1 for radius, 2 for start_angle, 3 for end_angle, 4 for none
\* (the frame, item 0, is never rejected).
Offending ==
    IF op.args[2] <= 0 THEN 1
    ELSE IF ~InDomain(op.args[3]) THEN 2
    ELSE IF ~InDomain(op.args[4]) THEN 3
    ELSE 4

\* C17: a data assignment applies the record in the order frame, radius,
\* start_angle, end_angle; it raises the invalid-value error iff an item is
\* out of domain, and then every field before the first such item holds the
\* record's value and every field from that item on holds its previous value.
C17_DataSetNotAtomic ==
    op.name = "data_set" =>
        /\ ret.err = (IF Offending < 4 THEN "InvalidValue" ELSE "")
        /\ After = [frame       |-> <<op.args[1]>>,
                    radius      |-> IF Offending > 1 THEN <<op.args[2]>> ELSE Before.radius,
                    start_angle |-> IF Offending > 2 THEN <<op.args[3]>> ELSE Before.start_angle,
                    end_angle   |-> IF Offending > 3 THEN <<op.args[4]>> ELSE Before.end_angle]

\* A record whose start angle is out of domain was assigned to a built arc:
\* the call raised, the frame and the radius are the record's and are new,
\* and the end angle is the previous one, not the record's.
C17_Witness ==
    /\ built
    /\ op.name = "data_set"
    /\ ret.err = "InvalidValue"
    /\ Offending = 2
    /\ After.frame = <<op.args[1]>> /\ After.frame # Before.frame
    /\ After.radius = <<op.args[2]>> /\ After.radius # Before.radius
    /\ After.start_angle = Before.start_angle
    /\ After.end_angle = Before.end_angle /\ After.end_angle # <<op.args[4]>>

\* ------------------------------------------------ the claims on Quaternion

\* The objects alive before the call are as they were.
QUnchanged == \A i \in QuatIds : pre[i] # None => quats[i] = pre[i]

\* The call returned an object that was not alive before it.
ReturnsNew == pre[ret.val] = None /\ quats[ret.val] # None

\* C11: unitize() and canonize() overwrite the four fields of the receiver
\* with the normalised values and return nothing; unitized, canonized,
\* conjugate and the product leave the receiver and the other operand as
\* they were and return a new instance; and the fields unitize() / canonize()
\* leave are those of the instance unitized / canonized returns for the same
\* quaternion.
C11_TwoForms ==
    /\ (op.name = "unitize" /\ ret.err = "") =>
          /\ ret.val = None
          /\ quats[Receiver] = <<quaternion_unitize(pre[Receiver][1]).val>>
          /\ quats = [pre EXCEPT ![Receiver] = quats[Receiver]]
          /\ LET v == unitized(pre, Receiver)
             IN  v.err = "" /\ quats[Receiver] = v.st[v.val]
    /\ op.name = "canonize" =>
          /\ ret.err = "" /\ ret.val = None
          /\ quats[Receiver] = <<quaternion_canonize(pre[Receiver][1])>>
          /\ quats = [pre EXCEPT ![Receiver] = quats[Receiver]]
          /\ LET v == canonized(pre, Receiver)
             IN  v.err = "" /\ quats[Receiver] = v.st[v.val]
    /\ (op.name \in {"unitized", "canonized", "conjugate", "__mul__"} /\ ret.err = "") =>
          QUnchanged /\ ReturnsNew

\* unitize() changed the fields of a receiver that was not of unit length.
C11_Witness ==
    /\ op.name = "unitize"
    /\ ret.err = ""
    /\ quats[Receiver] # pre[Receiver]
    /\ quats[Receiver][1].rad > 1

\* C12: q.conjugate.conjugate == q is true for every Quaternion q, == being
\* the equality of the Quaternion type.
C12_ConjugateRoundTrip ==
    (op.name = "conjugate" /\ ret.err = "") =>
        LET c == conjugate(quats, ret.val)
        IN  c.err = "" /\ Quaternion__eq__(c.val, Receiver)

\* All four signs flipped.
Negated(q) == [q EXCEPT !.w = -q.w, !.x = -q.x, !.y = -q.y, !.z = -q.z]

\* The fields of the instance canonized returns for the negation of the
\* receiver are those of the instance it returned for the receiver.
SameAsForNegation ==
    LET n == Quaternion(quats, Negated(pre[Receiver][1]))
        c == canonized(n.st, n.val)
    IN  c.err = "" /\ c.st[c.val] = quats[ret.val]

C14_CanonizeIdempotent ==
    /\ (op.name = "canonized" /\ ret.err = "") =>
          LET c == canonized(quats, ret.val)
          IN  c.err = "" /\ c.st[c.val] = quats[ret.val]
    /\ (op.name = "canonize" /\ ret.err = "") =>
          LET c == canonize(quats, Receiver)
          IN  c.err = "" /\ c.st = quats

\* canonize() flipped the signs of a q with w < 0 and a vector part that is
\* not 0.
C14_Witness ==
    /\ op.name = "canonize"
    /\ ret.err = ""
    /\ pre[Receiver][1].w < 0
    /\ pre[Receiver][1].y # 0
    /\ quats[Receiver] = <<Negated(pre[Receiver][1])>>

====
